---- MODULE Spec2Model ----
(***************************************************************************)
(* Model of plugins/state_monitor.py: the StateMonitor pipeline step.      *)
(*                                                                         *)
(* One action, Execute, is one call of StateMonitor.execute: the baseline  *)
(* seeding of the first iteration, the three rules evaluated in order      *)
(* inside the single try block, send_message for each rule that fires, the *)
(* except handler, the update of _previous_data and the return.            *)
(*                                                                         *)
(* Python objects are records tagged with their type: a sample is either   *)
(* the None object or a dict whose items map a subset of the keys to       *)
(* DataValue payloads; a payload is an int or None.                        *)
(***************************************************************************)
EXTENDS Integers, FiniteSets, Sequences

VARIABLES
    _previous_data, \* self._previous_data
    power_delim,    \* self.power_delim
    sender,         \* self.sender: "None" or "SlackSender"
    construction,   \* how SlackSender(...) ended in __init__ ("unused": not attempted)
    calls,          \* number of calls of execute made so far
    input_data,     \* argument of the last call
    results,        \* per rule, how its evaluation ended in the last call
    delivery,       \* per rule, what sender.send did in the last call
    caught,         \* whether the except handler of the last call ran
    outcome,        \* "idle" before any call, then "returned" or "raised"
    returned,       \* the object the last call returned (None object when it raised)
    send_reply,     \* SlackSender.send called alone: what the network answered
    send_logger,    \* ... the sender's logger attribute
    send_result,    \* ... and how send ended ("idle" before any call)
    fmt_unit,       \* construct_message called alone: METADATA name, UNIT_CONFIG number
    fmt_raw,        \* ... its argument
    fmt_msg         \* ... and what it returned (strings are sequences of characters)

vars == << _previous_data, power_delim, sender, construction, calls, input_data,
           results, delivery, caught, outcome, returned,
           send_reply, send_logger, send_result, fmt_unit, fmt_raw, fmt_msg >>

(* The variables of the step, and those of a sender used on its own *)
step_vars == << _previous_data, power_delim, sender, construction, calls,
                input_data, results, delivery, caught, outcome, returned >>

send_vars == << send_reply, send_logger, send_result >>

fmt_vars == << fmt_unit, fmt_raw, fmt_msg >>

----------------------------------------------------------------------------
(* Bounds of the model *)

MaxCalls == 3
MaxLoad == 2
MaxCurr == 2
MaxDelim == 2
MaxPing == 1
MaxLedAbove == 1
StatusSpan == 5
MaxUnit == 11
MaxMsgLen == 2

(* Program constants: the first LED state of the critical-failure range   *)
(* (line 134) and the default of power_delim (line 24)                     *)
CriticalLed == 12

DefaultDelim == 1

(* The status send takes for a delivered message (line 252) *)
StatusOK == 200

(* The values power_delim is constructed with *)
DelimInputs == {DefaultDelim, MaxDelim}

----------------------------------------------------------------------------
(* Python objects *)

NoneObj == [type |-> "NoneType", items |-> << >>]

IntVal(n) == [type |-> "int", value |-> n]

NoneVal == [type |-> "NoneType", value |-> 0]

Dict(f) == [type |-> "dict", items |-> f]

IsNone(x) == x.type = "NoneType"

Rules == {"power", "comm", "led"}

Keys == {"adc_vl_f", "adc_il_f", "ping", "led_state"}

Absent == [type |-> "absent", value |-> 0]

(* The payloads each key takes in the samples fed to the step; Absent     *)
(* stands for a sample that does not carry the key.                        *)
LoadInputs == {IntVal(n) : n \in 0..MaxLoad} \cup {NoneVal}

CurrInputs == {IntVal(1), IntVal(MaxCurr)}

PingInputs == {IntVal(0), IntVal(MaxPing)}

LedInputs == {IntVal(n) : n \in (CriticalLed - 1)..(CriticalLed + MaxLedAbove)}

MakeSample(vl, il, pg, ld) ==
    LET present == {k \in Keys :
                       \/ k = "adc_vl_f" /\ vl # Absent
                       \/ k = "adc_il_f" /\ il # Absent
                       \/ k = "ping" /\ pg # Absent
                       \/ k = "led_state" /\ ld # Absent}
    IN  Dict([k \in present |->
                 IF k = "adc_vl_f" THEN vl
                 ELSE IF k = "adc_il_f" THEN il
                 ELSE IF k = "ping" THEN pg
                 ELSE ld])

Samples ==
    {MakeSample(vl, il, pg, ld) :
        vl \in LoadInputs \cup {Absent}, il \in CurrInputs \cup {Absent},
        pg \in PingInputs \cup {Absent}, ld \in LedInputs \cup {Absent}}

(* What execute may be called with: a sample, or nothing (the default) *)
Inputs == Samples \cup {NoneObj}

----------------------------------------------------------------------------
(* StateMonitor.execute, piece by piece *)

(* Lines 90-91: the first iteration seeds the baseline with the input *)
FirstIteration(prev, inp) == IF IsNone(prev) THEN inp ELSE prev

(* data[key] raises: TypeError on None, KeyError on a dict without the key *)
SubscriptRaises(data, key) == IsNone(data) \/ key \notin DOMAIN data.items

(* now_then(key) raises when either subscript does *)
now_then_raises(inp, prev, key) ==
    SubscriptRaises(inp, key) \/ SubscriptRaises(prev, key)

now(inp, key) == inp.items[key]

then(prev, key) == prev.items[key]

IsNumeric(v) == v.type = "int"

(* Python truth value of a payload *)
Truthy(v) == IsNumeric(v) /\ v.value # 0

(* Line 106: load*curr raises TypeError unless both payloads are numbers *)
power(data) == data.items["adc_vl_f"].value * data.items["adc_il_f"].value

PowerNumeric(data) ==
    IsNumeric(data.items["adc_vl_f"]) /\ IsNumeric(data.items["adc_il_f"])

(* Mutant of PowerDrop: the present power compared with <= *)
PowerDropAtOrBelow(power_now, power_pre, delim) ==
    (power_now <= delim) /\ (power_pre > delim)

(* Line 107 *)
PowerDrop(power_now, power_pre, delim) ==
    (power_now < delim) /\ (power_pre > delim)

(* Mutant of CommLoss: a level trigger, the previous ping is not read *)
CommLossLevel(comm_now, comm_pre) == Truthy(comm_now)

(* Line 115 *)
CommLoss(comm_now, comm_pre) == Truthy(comm_now) /\ ~Truthy(comm_pre)

(* Mutants of CriticalState: a level trigger; and the range starting     *)
(* above 12                                                                *)
CriticalStateLevel(state_now, state_pre) == state_now.value >= CriticalLed

CriticalStateAbove(state_now, state_pre) ==
    (state_now.value > CriticalLed) /\ (state_now # state_pre)

(* Line 134; state_now >= 12 raises TypeError on a None payload *)
CriticalState(state_now, state_pre) ==
    (state_now.value >= CriticalLed) /\ (state_now # state_pre)

(* Each rule's evaluation ends in "raise", "fire" (the message is logged  *)
(* and handed to send_message) or "skip"; a rule after the one that left  *)
(* the try block is "unreached".                                          *)
PowerRule(inp, prev, delim) ==
    IF now_then_raises(inp, prev, "adc_vl_f") \/ now_then_raises(inp, prev, "adc_il_f")
    THEN "raise"
    ELSE IF ~PowerNumeric(inp) \/ ~PowerNumeric(prev)
    THEN "raise"
    ELSE IF PowerDrop(power(inp), power(prev), delim) THEN "fire" ELSE "skip"

CommRule(inp, prev) ==
    IF now_then_raises(inp, prev, "ping")
    THEN "raise"
    ELSE IF CommLoss(now(inp, "ping"), then(prev, "ping")) THEN "fire" ELSE "skip"

LedRule(inp, prev) ==
    IF now_then_raises(inp, prev, "led_state")
    THEN "raise"
    ELSE IF ~IsNumeric(now(inp, "led_state"))
    THEN "raise"
    ELSE IF CriticalState(now(inp, "led_state"), then(prev, "led_state"))
    THEN "fire" ELSE "skip"

EvalRule(rule, inp, prev, delim) ==
    IF rule = "power" THEN PowerRule(inp, prev, delim)
    ELSE IF rule = "comm" THEN CommRule(inp, prev)
    ELSE LedRule(inp, prev)

(* What the network does with the POST of line 250: it fails below HTTP  *)
(* (DNS, timeout, connection refused) or a response with a status arrives *)
NetworkFailure == [kind |-> "failure", status |-> 0]

Response(code) == [kind |-> "response", status |-> code]

Statuses == (StatusOK - StatusSpan)..(StatusOK + 99 + StatusSpan)

Replies == {Response(code) : code \in Statuses} \cup {NetworkFailure}

(* urllib.request.urlopen (line 250): URLError on a network failure,      *)
(* HTTPError on a status outside 200..299, the response otherwise         *)
urlopen(reply) ==
    IF reply.kind = "failure" THEN "URLError"
    ELSE IF reply.status < StatusOK \/ reply.status > StatusOK + 99 THEN "HTTPError"
    ELSE "response"

(* Line 220: no logger given means the module's logger; False means none *)
LoggerArgs == {"None", "Logger", "False"}

SenderLogger(logger_arg) == IF logger_arg = "None" THEN "Logger" ELSE logger_arg

(* Line 252 *)
IsDelivered(status) == status = StatusOK

(* SlackSender.send (lines 240-258): what urlopen raises leaves send; a   *)
(* returned status other than 200 is logged as a warning when the sender  *)
(* has a logger and raises RuntimeWarning when it has none                *)
send(reply, logger) ==
    IF urlopen(reply) # "response" THEN urlopen(reply)
    ELSE IF IsDelivered(reply.status) THEN "ok"
    ELSE IF logger # "False" THEN "warn"
    ELSE "RuntimeWarning"

SendRaises(result) == result \in {"URLError", "HTTPError", "RuntimeWarning"}

(* What send_message sees of a send of the step's sender, which is built  *)
(* with the step's logger (lines 61-62)                                    *)
SlackOutcomes ==
    {IF SendRaises(send(reply, SenderLogger("Logger"))) THEN "raise"
     ELSE send(reply, SenderLogger("Logger")) : reply \in Replies}

(* Mutant of DeliveryChoices: a rule that did not fire sends as well *)
DeliveryChoicesResend(result, snd) ==
    IF result \in {"fire", "skip"} THEN SlackOutcomes ELSE {"none"}

(* send_message: with no sender the message is only constructed; with a   *)
(* SlackSender, send posts it: urlopen returns status 200 ("ok"), returns *)
(* another status, which is logged as a warning ("warn"), or raises       *)
(* (HTTPError, URLError: "raise").                                         *)
SendOutcomes(snd) == IF snd = "None" THEN {"unsent"} ELSE SlackOutcomes

(* What a rule that did not fire leaves in the delivery record *)
NoSend == "none"

(* The outcomes the delivery of a rule may take, given how the rule ended *)
DeliveryChoices(result, snd) == IF result = "fire" THEN SendOutcomes(snd) ELSE {NoSend}

(* A rule aborts the try block when its evaluation or its send raises *)
Aborts(result, dlv) == result = "raise" \/ dlv = "raise"

(* Mutant of HandlerRaises: a handler that never raises *)
HandlerCompletes(inp, prev) == FALSE

(* Lines 145-149: data.items() raises AttributeError on None, inside the  *)
(* handler, so the exception leaves execute                                *)
HandlerRaises(inp, prev) == IsNone(inp) \/ IsNone(prev)

(* Mutant of StoredAfter: the baseline is kept when the handler ran *)
StoredAfterUnlessCaught(handled, escapes, prev, inp) ==
    IF escapes \/ handled THEN prev ELSE inp

(* self._previous_data when execute ends: the input (line 152), unless an *)
(* exception left execute before that line, which leaves the value of     *)
(* lines 90-91                                                             *)
StoredAfter(handled, escapes, prev, inp) == IF escapes THEN prev ELSE inp

(* Mutant of ExceptCatches: a clause naming only the evaluation errors *)
ExceptCatchesEvaluationOnly(kind) == kind = "evaluation"

(* Line 140: the except clause catches every Exception raised in the try  *)
ExceptCatches(kind) == kind \in {"evaluation", "delivery"}

(* The kind of the exception that aborted the try block *)
ExceptionKind(ends) ==
    IF "raise" \in ends THEN "evaluation" ELSE "delivery"

----------------------------------------------------------------------------
(* SlackSender.__init__ (lines 220-238): FileNotFoundError when the key   *)
(* file does not exist, KeyError when the channel is not defined in it.   *)
(* (Line 10 imports the name ConfigParse while line 227 calls             *)
(* ConfigParser; the model reads both as configparser.ConfigParser.)      *)
SlackSenderInit(key_file_exists, channel_defined) ==
    IF ~key_file_exists THEN "FileNotFoundError"
    ELSE IF ~channel_defined THEN "KeyError"
    ELSE "ok"

(* Lines 58-70: the sender is constructed only for method 'slack' *)
Construct(method, key_file_exists, channel_defined) ==
    IF method = "slack" THEN SlackSenderInit(key_file_exists, channel_defined)
    ELSE "unused"

ConstructionFailed(c) == c \in {"FileNotFoundError", "KeyError"}

(* Mutant of SenderAfterInit: the attribute is bound although the         *)
(* constructor raised                                                      *)
SenderBoundOnFailure(c) == IF c = "unused" THEN "None" ELSE "SlackSender"

(* Lines 58-70: self.sender stays None unless the constructor returned *)
SenderAfterInit(c) == IF c = "ok" THEN "SlackSender" ELSE "None"

(* StateMonitor.__init__: no previous sample; power_delim as configured;  *)
(* the sender is a SlackSender when method is 'slack' and its             *)
(* construction succeeded, and None otherwise.                            *)
Init ==
    /\ _previous_data = NoneObj
    /\ power_delim \in DelimInputs
    /\ \E method \in {"None", "slack"}, key_file_exists \in BOOLEAN,
          channel_defined \in BOOLEAN :
          /\ construction = Construct(method, key_file_exists, channel_defined)
          /\ sender = SenderAfterInit(construction)
    /\ calls = 0
    /\ input_data = NoneObj
    /\ results = [power |-> "unreached", comm |-> "unreached", led |-> "unreached"]
    /\ delivery = [power |-> NoSend, comm |-> NoSend, led |-> NoSend]
    /\ caught = FALSE
    /\ outcome = "idle"
    /\ returned = NoneObj
    /\ send_reply = NetworkFailure
    /\ send_logger = "Logger"
    /\ send_result = "idle"
    /\ fmt_unit = [name |-> << >>, number |-> 0]
    /\ fmt_raw = << >>
    /\ fmt_msg = << >>

(* One call of execute(inp) *)
Execute(inp) ==
    /\ calls < MaxCalls
    /\ \E prev \in {FirstIteration(_previous_data, inp)} :
       \E r1 \in {EvalRule("power", inp, prev, power_delim)} :
       \E d1 \in DeliveryChoices(r1, sender) :
       \E r2 \in {IF Aborts(r1, d1) THEN "unreached"
                  ELSE EvalRule("comm", inp, prev, power_delim)} :
       \E d2 \in DeliveryChoices(r2, sender) :
       \E r3 \in {IF Aborts(r1, d1) \/ Aborts(r2, d2) THEN "unreached"
                  ELSE EvalRule("led", inp, prev, power_delim)} :
       \E d3 \in DeliveryChoices(r3, sender) :
       \E raised \in {Aborts(r1, d1) \/ Aborts(r2, d2) \/ Aborts(r3, d3)} :
       \E handled \in {raised /\ ExceptCatches(ExceptionKind({r1, r2, r3}))} :
       \E escapes \in {raised /\ (~handled \/ HandlerRaises(inp, prev))} :
           /\ results' = [power |-> r1, comm |-> r2, led |-> r3]
           /\ delivery' = [power |-> d1, comm |-> d2, led |-> d3]
           /\ caught' = handled
           /\ _previous_data' = StoredAfter(handled, escapes, prev, inp)
           /\ outcome' = IF escapes THEN "raised" ELSE "returned"
           /\ returned' = IF escapes THEN NoneObj ELSE inp
    /\ input_data' = inp
    /\ calls' = calls + 1
    /\ UNCHANGED << power_delim, sender, construction >>
    /\ UNCHANGED << send_vars, fmt_vars >>

Next == \E inp \in Inputs : Execute(inp)

Spec == Init /\ [][Next]_vars

(* A SlackSender constructed with logger_arg, and one call of its send *)
Send(reply, logger_arg) ==
    /\ send_reply' = reply
    /\ send_logger' = SenderLogger(logger_arg)
    /\ send_result' = send(reply, SenderLogger(logger_arg))
    /\ UNCHANGED << step_vars, fmt_vars >>

SendNext == \E reply \in Replies, logger_arg \in LoggerArgs : Send(reply, logger_arg)

(* The sender and the formatter on their own: the step is constructed    *)
(* with the defaults and never ticks                                      *)
DefaultInit == Init /\ construction = "unused" /\ power_delim = DefaultDelim

SendSpec == DefaultInit /\ [][SendNext]_vars

----------------------------------------------------------------------------
(* StateMonitor.construct_message (lines 178-190) *)

NL == "\n"

Chars(n) == << "0", "1", "2", "3", "4", "5", "6", "7", "8", "9" >>[n + 1]

RECURSIVE Digits(_)
Digits(n) == IF n < 10 THEN << Chars(n) >> ELSE Digits(n \div 10) \o << Chars(n % 10) >>

RECURSIVE Zeros(_)
Zeros(k) == IF k <= 0 THEN << >> ELSE << "0" >> \o Zeros(k - 1)

(* The format 02d of line 184: at least two characters, padded with 0 *)
Format02d(number) == Zeros(2 - Len(Digits(number))) \o Digits(number)

(* Line 184 *)
sensor_name(unit) == unit.name \o Format02d(unit.number)

MessageFrom ==
    << "M", "e", "s", "s", "a", "g", "e", " ", "f", "r", "o", "m", " ",
       "s", "e", "n", "s", "o", "r", " " >>

(* Line 186 *)
header(unit) == MessageFrom \o sensor_name(unit)

(* str.join of line 188 *)
RECURSIVE join(_, _)
join(sep, parts) ==
    IF Len(parts) = 0 THEN << >>
    ELSE IF Len(parts) = 1 THEN parts[1]
    ELSE parts[1] \o sep \o join(sep, Tail(parts))

(* Mutant of construct_message: the parts joined by a space *)
construct_message_spaced(unit, msg) == join(<< " " >>, << header(unit), msg >>)

construct_message(unit, msg) == join(<< NL >>, << header(unit), msg >>)

(* The inputs: unit names and numbers of one, two and three digits, raw   *)
(* messages up to MaxMsgLen characters, line breaks among them             *)
UnitNames == { << "m", "j" >>, << "h", "a", "m", "m", "a" >> }

UnitNumbers == 0..MaxUnit \cup {100}

Units == [name : UnitNames, number : UnitNumbers]

MsgChars == {"P", " ", NL}

RawMessages == UNION {[1..n -> MsgChars] : n \in 0..MaxMsgLen}

Format(unit, msg) ==
    /\ fmt_unit' = unit
    /\ fmt_raw' = msg
    /\ fmt_msg' = construct_message(unit, msg)
    /\ UNCHANGED << step_vars, send_vars >>

FormatNext == \E unit \in Units, msg \in RawMessages : Format(unit, msg)

FormatSpec == DefaultInit /\ [][FormatNext]_vars

(* The rules that fired in the last call, and those it evaluated *)
fired == {r \in Rules : results[r] = "fire"}

reached == {r \in Rules : results[r] # "unreached"}

----------------------------------------------------------------------------
(* Vocabulary of the properties *)

(* A well-formed sample carries every key with a numeric payload *)
WellFormed(x) ==
    /\ x.type = "dict"
    /\ DOMAIN x.items = Keys
    /\ \A k \in Keys : IsNumeric(x.items[k])

(* A sample whose power can be computed *)
CarriesPower(x) ==
    /\ x.type = "dict"
    /\ {"adc_vl_f", "adc_il_f"} \subseteq DOMAIN x.items
    /\ PowerNumeric(x)

ping(x) == x.items["ping"].value

led_state(x) == x.items["led_state"].value

NothingSent == \A r \in Rules : delivery[r] = NoSend

DeliveryRaised == \E r \in Rules : delivery[r] = "raise"

EvaluationRaised == \E r \in Rules : results[r] = "raise"

----------------------------------------------------------------------------
(* C1: on the first call of execute on a freshly constructed step no rule  *)
(* fires and no message is sent, whatever the input is.                    *)
FirstCallFiresNothing == calls = 1 => (fired = {} /\ NothingSent)

(* Witness: the first call was given a sample that is already below the    *)
(* power threshold, unreachable and in a critical LED state.               *)
FirstCallAlarmingSample ==
    /\ calls = 1
    /\ WellFormed(input_data)
    /\ power(input_data) < power_delim
    /\ ping(input_data) # 0
    /\ led_state(input_data) >= CriticalLed
    /\ outcome = "returned"
    /\ fired = {}

(* C2: after every call of execute, the stored previous sample is the      *)
(* input of that call.                                                     *)
PreviousIsLastInput == calls > 0 => _previous_data = input_data

(* C3: within one tick, with no delivery raising, a rule whose own         *)
(* condition holds fires even when the evaluation of another rule raises.  *)
RulesFaultIsolated ==
    [][\A r \in Rules :
          LET inp == input_data'
              prev == FirstIteration(_previous_data, inp)
          IN  (/\ \A q \in Rules : delivery'[q] # "raise"
               /\ \E q \in Rules \ {r} : EvalRule(q, inp, prev, power_delim) = "raise"
               /\ EvalRule(r, inp, prev, power_delim) = "fire")
              => results'[r] = "fire"]_vars

(* C4: in a run of consecutive well-formed ticks, the power-drop rule      *)
(* fires on the first tick whose power is <= the threshold after a tick    *)
(* above it, and on no later tick of the run.                              *)
PowerDropOnceAtOrBelow ==
    [][(/\ calls > 0
        /\ _previous_data = input_data
        /\ WellFormed(_previous_data)
        /\ WellFormed(input_data'))
       => LET power_now == power(input_data')
              power_pre == power(_previous_data)
          IN  /\ (power_pre > power_delim /\ power_now <= power_delim)
                    => results'.power = "fire"
              /\ (power_pre <= power_delim /\ power_now <= power_delim)
                    => results'.power # "fire"]_vars

CommLossIff ==
    [][(/\ WellFormed(input_data')
        /\ delivery'.power # "raise")
       => IF calls = 0
          THEN results'.comm # "fire"
          ELSE (_previous_data = input_data /\ WellFormed(_previous_data))
               => (results'.comm = "fire"
                     <=> (ping(input_data') # 0 /\ ping(_previous_data) = 0))]_vars

(* Witness: the rule fired on a well-formed tick after the first *)
CommLossFired ==
    calls >= 2 /\ WellFormed(input_data) /\ results.comm = "fire" /\ ~DeliveryRaised

(* C7: over well-formed ticks with no raising delivery, the critical       *)
(* device state rule fires exactly when the current led_state is >= 12     *)
(* and differs from the previous tick's led_state.                         *)
CriticalStateIff ==
    [][(/\ WellFormed(input_data')
        /\ delivery'.power # "raise"
        /\ delivery'.comm # "raise")
       => IF calls = 0
          THEN results'.led # "fire"
          ELSE (_previous_data = input_data /\ WellFormed(_previous_data))
               => (results'.led = "fire"
                     <=> /\ led_state(input_data') >= CriticalLed
                         /\ led_state(input_data') # led_state(_previous_data))]_vars

(* Witness: the rule fired on a change inside the critical range *)
CriticalStateFired ==
    /\ calls >= 2
    /\ WellFormed(input_data)
    /\ results.led = "fire"
    /\ led_state(input_data) > CriticalLed
    /\ ~DeliveryRaised

(* C8: when no evaluation raises, a delivery that fails for one rule does  *)
(* not keep the other rules whose condition holds from firing and being    *)
(* sent.                                                                   *)
SendsFaultIsolated ==
    [][\A r \in Rules :
          LET inp == input_data'
              prev == FirstIteration(_previous_data, inp)
          IN  (/\ \A q \in Rules : EvalRule(q, inp, prev, power_delim) # "raise"
               /\ \E q \in Rules \ {r} : delivery'[q] \in {"warn", "raise"}
               /\ EvalRule(r, inp, prev, power_delim) = "fire")
              => (results'[r] = "fire" /\ delivery'[r] # NoSend)]_vars

(* C9: called with a sample (a mapping), execute returns; every failure of *)
(* evaluation or delivery was caught and logged.                            *)
ExecuteReturnsOnSamples ==
    (calls > 0 /\ ~IsNone(input_data))
        => /\ outcome = "returned"
           /\ (EvaluationRaised \/ DeliveryRaised) => caught

(* Witness: a delivery raised on a tick given a sample, and execute        *)
(* returned                                                                 *)
DeliveryRaiseCaught ==
    /\ calls > 0
    /\ ~IsNone(input_data)
    /\ DeliveryRaised
    /\ caught
    /\ outcome = "returned"

(* C10: execute returns the very sample it was given on every tick. *)
ReturnsItsInput == calls > 0 => (outcome = "returned" /\ returned = input_data)

(* C11: when constructing the webhook sender failed, the sender stays      *)
(* unset for the whole life of the step, so no tick attempts a delivery,   *)
(* while every triggered event is still logged and formatted.              *)
FailedConstructionNeverSends ==
    ConstructionFailed(construction)
        => /\ sender = "None"
           /\ \A r \in Rules :
                 /\ delivery[r] \in {NoSend, "unsent"}
                 /\ results[r] = "fire" => delivery[r] = "unsent"

(* Witness: after a failed construction two rules fired on a later tick *)
FiredAfterFailedConstruction ==
    /\ ConstructionFailed(construction)
    /\ calls >= 2
    /\ results.comm = "fire"
    /\ results.led = "fire"

(* Vocabulary: send was called, and the network's answer was a delivery   *)
(* failure (a network-level failure, or a status outside 200..299)         *)
SendCalled == send_result # "idle"

Is2xx(code) == code >= 200 /\ code <= 299

DeliveryFailure(reply) == reply.kind = "failure" \/ ~Is2xx(reply.status)

(* C12: a delivery failure in send has exactly two outcomes: with a logger *)
(* one warning and a normal return, without a logger an error raised to    *)
(* the caller.                                                             *)
FailureWarnsOrRaises ==
    (SendCalled /\ DeliveryFailure(send_reply))
        => IF send_logger # "False"
           THEN send_result = "warn"
           ELSE SendRaises(send_result)

(* C13: send takes a response for a delivery failure exactly when its      *)
(* status is outside 200..299.                                             *)
FailureIffNot2xx ==
    (SendCalled /\ send_reply.kind = "response")
        => (send_result # "ok" <=> ~Is2xx(send_reply.status))

Attempted == {"ok", "warn", "raise"}

(* C14: each triggered event causes at most one delivery attempt: every    *)
(* attempt of a tick is the one send of a rule that this tick's own        *)
(* evaluation fired, whatever an earlier tick's delivery did.              *)
AttemptsOnlyForOwnEvents ==
    [][\A r \in Rules :
          delivery'[r] \in Attempted
              => /\ results'[r] = "fire"
                 /\ EvalRule(r, input_data', FirstIteration(_previous_data, input_data'),
                             power_delim) = "fire"]_vars

(* Witness: two events in one tick, one attempt each, the second failing *)
TwoEventsTwoAttempts ==
    /\ results.power = "fire"
    /\ delivery.power = "ok"
    /\ results.comm = "fire"
    /\ delivery.comm = "raise"
    /\ Cardinality({r \in Rules : delivery[r] \in Attempted}) = 2

(* The header line: the unit number with a leading zero below 10 *)
ExpectedHeader(unit) ==
    MessageFrom \o unit.name \o
        (IF unit.number < 10 THEN << "0", Chars(unit.number) >> ELSE Digits(unit.number))

(* C15: construct_message returns the header line, one line break, then    *)
(* the raw message unchanged; stripping the header and the line break      *)
(* gives the raw message back.                                             *)
FormatRoundTrip ==
    Len(fmt_msg) > 0
        => LET h == ExpectedHeader(fmt_unit)
           IN  /\ fmt_msg = h \o << NL >> \o fmt_raw
               /\ SubSeq(fmt_msg, 1, Len(h)) = h
               /\ fmt_msg[Len(h) + 1] = NL
               /\ SubSeq(fmt_msg, Len(h) + 2, Len(fmt_msg)) = fmt_raw

(* Witness: a raw message that itself holds a line break, under a          *)
(* one-digit unit number                                                   *)
FormattedMultiline ==
    /\ Len(fmt_msg) > 0
    /\ fmt_unit.number < 10
    /\ Len(fmt_raw) = 2
    /\ fmt_raw[1] = NL

WellFormedPairCompared ==
    [][(/\ calls > 0
        /\ WellFormed(input_data)
        /\ WellFormed(input_data'))
       => /\ _previous_data = input_data
          /\ results'.power = EvalRule("power", input_data', input_data, power_delim)
          /\ \A r \in Rules :
                results'[r] \in {"unreached",
                                 EvalRule(r, input_data', input_data, power_delim)}]_vars

(* Witness: a well-formed tick, the third or later, fired two rules *)
FiredOnThirdTick ==
    /\ calls >= 3
    /\ WellFormed(input_data)
    /\ results.led = "fire"
    /\ results.comm = "fire"

(* C18: execute called with no input on a step that has no stored previous *)
(* sample logs the evaluation failure and returns None without raising.    *)
NoInputReturnsNone ==
    [][(IsNone(_previous_data) /\ IsNone(input_data'))
       => (outcome' = "returned" /\ caught' /\ IsNone(returned'))]_vars

(* C19: neither the power-drop rule nor the communication-loss rule fires  *)
(* on two consecutive ticks.                                               *)
NoConsecutiveFiring ==
    [][\A r \in {"power", "comm"} :
          results[r] = "fire" => results'[r] # "fire"]_vars

(* Witness: both rules fired and left a baseline below the threshold and   *)
(* unreachable, with a further tick to come                                *)
FiringLeavesBaseline ==
    /\ results.power = "fire"
    /\ results.comm = "fire"
    /\ calls < MaxCalls
    /\ _previous_data = input_data
    /\ power(_previous_data) < power_delim
    /\ ping(_previous_data) # 0

====
